---- MODULE Spec2Model ----
(***************************************************************************)
(* Model of build.py: the hand-written YAML-subset parser (parse_yaml,     *)
(* _parse_scalar, _split_array, _parse_block, _parse_list) and the page    *)
(* generation driver (is_manually_managed, generate_page, main).           *)
(*                                                                         *)
(* Text is a sequence of one-character strings.  Line indexes are 0-based  *)
(* as in the source: line i of the source is lines[i + 1] here.            *)
(***************************************************************************)
EXTENDS Integers, Sequences, FiniteSets, TLC

VARIABLES
    lines,      \* the lines of the text given to parse_yaml
    stack,      \* the parser's call stack, innermost frame first
    ret,        \* the pair a parser call has just returned, if any
    frag,       \* a value fragment of a "key: value" line
    out,        \* what a run of the parser has produced
    edited,     \* the document after a line was inserted
    fs,         \* the files: portfolio.yaml, the templates, the pages
    pc,         \* where main is
    data,       \* main's data: the parsed configuration
    section,    \* the elements the running for loop of main goes through
    idx,        \* how many of them it has visited
    generated,  \* main's list of generated files
    wrote       \* per file written: the directory, what was there, the template

parse_vars == <<lines, stack, ret, frag, out, edited>>

build_vars == <<fs, pc, data, section, idx, generated, wrote>>

vars == <<lines, stack, ret, frag, out, edited,
          fs, pc, data, section, idx, generated, wrote>>

(***************************************************************************)
(* Python string primitives used by the parser.                            *)
(***************************************************************************)

\* The whitespace characters of the modelled alphabet (str.strip, \s).
Whitespace == {" "}

RECURSIVE lstrip(_)
lstrip(s) ==
    IF s # <<>> /\ Head(s) \in Whitespace THEN lstrip(Tail(s)) ELSE s

RECURSIVE rstrip(_)
rstrip(s) ==
    IF s # <<>> /\ s[Len(s)] \in Whitespace
    THEN rstrip(SubSeq(s, 1, Len(s) - 1))
    ELSE s

strip(s) == rstrip(lstrip(s))

\* s.startswith(p)
startswith(s, p) == Len(s) >= Len(p) /\ SubSeq(s, 1, Len(p)) = p

\* s.endswith(p)
endswith(s, p) ==
    Len(s) >= Len(p) /\ SubSeq(s, Len(s) - Len(p) + 1, Len(s)) = p

\* s[1:-1]
inner(s) == SubSeq(s, 2, Len(s) - 1)

_get_indent(line) == Len(line) - Len(lstrip(line))

(***************************************************************************)
(* Values produced by the parser.  Every value is a record of one shape:   *)
(* t is the Python type, s the text of a str, b the truth value of a bool, *)
(* items the elements of a list or the values of a dict, keys the keys of  *)
(* a dict in insertion order.                                              *)
(***************************************************************************)
Str(s) == [t |-> "str", s |-> s, b |-> FALSE, keys |-> <<>>, items |-> <<>>]
Bool(b) == [t |-> "bool", s |-> <<>>, b |-> b, keys |-> <<>>, items |-> <<>>]
None == [t |-> "none", s |-> <<>>, b |-> FALSE, keys |-> <<>>, items |-> <<>>]
List(xs) == [t |-> "list", s |-> <<>>, b |-> FALSE, keys |-> <<>>, items |-> xs]
Dict(ks, xs) == [t |-> "dict", s |-> <<>>, b |-> FALSE, keys |-> ks, items |-> xs]

EmptyDict == Dict(<<>>, <<>>)
EmptyList == List(<<>>)

\* The position of key k in dict d, 0 when absent.
KeyPos(d, k) ==
    IF \E p \in 1..Len(d.keys) : d.keys[p] = k
    THEN CHOOSE p \in 1..Len(d.keys) : d.keys[p] = k
    ELSE 0

\* d[k] = v : a present key keeps its place and takes the new value.
DictSet(d, k, v) ==
    IF KeyPos(d, k) = 0
    THEN Dict(Append(d.keys, k), Append(d.items, v))
    ELSE Dict(d.keys, [d.items EXCEPT ![KeyPos(d, k)] = v])

\* d.get(k, default)
DictGet(d, k, default) ==
    IF KeyPos(d, k) = 0 THEN default ELSE d.items[KeyPos(d, k)]

\* xs.append(v)
ListAppend(l, v) == List(Append(l.items, v))

(***************************************************************************)
(* _split_array and _parse_scalar.                                         *)
(***************************************************************************)
NoQuote == ""

\* A faulty variant of opens_quote: only the double quote opens a span.
opens_quote_double_only(ch, in_quote) == ch = "\"" /\ in_quote = NoQuote

\* "ch in ('"', "'") and in_quote is None" (line 53)
opens_quote(ch, in_quote) == ch \in {"\"", "'"} /\ in_quote = NoQuote

\* The for loop of _split_array from character k (1-based) on; the result
\* is the list of fragments after the final "if current.strip()".
RECURSIVE split_loop(_, _, _, _, _)
split_loop(s, k, items, current, in_quote) ==
    IF k > Len(s)
    THEN IF strip(current) # <<>> THEN Append(items, current) ELSE items
    ELSE LET ch == s[k] IN
         IF opens_quote(ch, in_quote)
         THEN split_loop(s, k + 1, items, Append(current, ch), ch)
         ELSE IF ch = in_quote
         THEN split_loop(s, k + 1, items, Append(current, ch), NoQuote)
         ELSE IF ch = "," /\ in_quote = NoQuote
         THEN split_loop(s, k + 1, Append(items, current), <<>>, in_quote)
         ELSE split_loop(s, k + 1, items, Append(current, ch), in_quote)

_split_array(s) == split_loop(s, 1, <<>>, <<>>, NoQuote)

\* The test of source line 39-40: the text starts and ends with the same
\* quote character.
is_quoted(val) ==
    \/ startswith(val, <<"\"">>) /\ endswith(val, <<"\"">>)
    \/ startswith(val, <<"'">>) /\ endswith(val, <<"'">>)

\* The test of source line 43.
is_array(val) == startswith(val, <<"[">>) /\ endswith(val, <<"]">>)

RECURSIVE _parse_scalar(_)
_parse_scalar(text) ==
    LET val == strip(text) IN
    IF val = <<>> THEN Str(<<>>)
    ELSE IF val \in {<<"t", "r", "u", "e">>, <<"T", "r", "u", "e">>}
    THEN Bool(TRUE)
    ELSE IF val \in {<<"f", "a", "l", "s", "e">>, <<"F", "a", "l", "s", "e">>}
    THEN Bool(FALSE)
    ELSE IF val \in {<<"n", "u", "l", "l">>, <<"~">>}
    THEN None
    ELSE IF is_quoted(val)
    THEN Str(inner(val))
    ELSE IF is_array(val)
    THEN LET parts == _split_array(inner(val)) IN
         List([p \in 1..Len(parts) |-> _parse_scalar(parts[p])])
    ELSE Str(val)

(***************************************************************************)
(* Line classification shared by _parse_block and _parse_list.             *)
(***************************************************************************)

\* "not trimmed or trimmed.startswith('#')": a blank or comment line.
is_skipped(trimmed) == trimmed = <<>> \/ startswith(trimmed, <<"#">>)

\* trimmed.startswith('- ')
is_dash(trimmed) == startswith(trimmed, <<"-", " ">>)

\* re.match(r'^([^:]+?):\s*(.*)', t): the key is the text before the first
\* colon and must not be empty; key and val are the stripped groups.
FirstColon(t) ==
    IF \E p \in 1..Len(t) : t[p] = ":"
    THEN CHOOSE p \in 1..Len(t) :
             t[p] = ":" /\ \A q \in 1..(p - 1) : t[q] # ":"
    ELSE 0

re_match(t) ==
    LET p == FirstColon(t) IN
    IF p >= 2
    THEN [ok |-> TRUE, key |-> strip(SubSeq(t, 1, p - 1)),
          val |-> strip(SubSeq(t, p + 1, Len(t)))]
    ELSE [ok |-> FALSE, key |-> <<>>, val |-> <<>>]

\* "while ni < len(lines) and not lines[ni].strip(): ni += 1"
RECURSIVE lookahead(_, _)
lookahead(L, ni) ==
    IF ni < Len(L) /\ strip(L[ni + 1]) = <<>>
    THEN lookahead(L, ni + 1)
    ELSE ni

\* A faulty variant of block_ends: a line at the parent's indent stays in the block.
block_ends_strict(indent, parent_indent) == indent < parent_indent

\* "if indent <= parent_indent: break" (line 78)
block_ends(indent, parent_indent) == indent <= parent_indent

\* "if indent < list_indent: break" (line 121)
list_ends(indent, list_indent) == indent < list_indent

\* A faulty variant of item_ends: a line at the dash line's indent stays in the item.
item_ends_strict(si, indent, st) == si < indent \/ is_dash(st)

\* "if si <= indent: break" and "if st.startswith('- '): break" (lines 139-142)
item_ends(si, indent, st) == si <= indent \/ is_dash(st)

\* A faulty variant of next_line: the loop forgets to advance.
next_line_stuck(i) == i

\* "i += 1" / "j += 1": the loops' advance to the following line.
next_line(i) == i + 1

(***************************************************************************)
(* The parser as a machine.  A frame is one activation of _parse_block or  *)
(* _parse_list: its position (at), its local variables, and for a frame    *)
(* waiting on a nested call the call site.  One step is one iteration of   *)
(* one of the three while loops, or the delivery of a returned pair        *)
(* (value, next index) to the caller.                                      *)
(***************************************************************************)
BlockFrame(start, parent_indent) ==
    [fn |-> "block", at |-> "loop", i |-> start, ind |-> parent_indent,
     result |-> EmptyDict, key |-> <<>>, obj |-> EmptyDict, j |-> 0]

ListFrame(start, list_indent) ==
    [fn |-> "list", at |-> "loop", i |-> start, ind |-> list_indent,
     result |-> EmptyList, key |-> <<>>, obj |-> EmptyDict, j |-> 0]

NoRet == [live |-> FALSE, val |-> None, next |-> 0]

\* What one step does: continue in the same frame, call, or return.
Stay(br, f) ==
    [br |-> br, op |-> "stay", frame |-> f, callee |-> f,
     val |-> None, next |-> 0]
Call(br, f, g) ==
    [br |-> br, op |-> "call", frame |-> f, callee |-> g,
     val |-> None, next |-> 0]
Return(br, f, v, n) ==
    [br |-> br, op |-> "return", frame |-> f, callee |-> f,
     val |-> v, next |-> n]

\* One iteration of the while loop of _parse_block (lines 71-108), or the
\* return of line 109 when the loop condition fails.
_parse_block(L, f) ==
    IF ~(f.i < Len(L)) THEN Return("block_end", f, f.result, f.i)
    ELSE
    LET line == L[f.i + 1]
        trimmed == strip(line)
        indent == _get_indent(line)
        m == re_match(trimmed)
        ni == lookahead(L, f.i + 1)
    IN
    IF is_skipped(trimmed)
    THEN Stay("block_skip", [f EXCEPT !.i = next_line(f.i)])
    ELSE IF block_ends(indent, f.ind)
    THEN Return("block_break", f, f.result, f.i)
    ELSE IF is_dash(trimmed)
    THEN Call("block_dash", [f EXCEPT !.at = "call81"], ListFrame(f.i, indent))
    ELSE IF m.ok
    THEN IF m.val = <<>>
         THEN IF ni < Len(L)
              THEN IF _get_indent(L[ni + 1]) > indent
                   THEN IF is_dash(strip(L[ni + 1]))
                        THEN Call("block_list",
                                  [f EXCEPT !.at = "call95", !.key = m.key],
                                  ListFrame(ni, _get_indent(L[ni + 1])))
                        ELSE Call("block_block",
                                  [f EXCEPT !.at = "call97", !.key = m.key],
                                  BlockFrame(ni, indent))
                   ELSE Stay("block_empty",
                             [f EXCEPT !.result = DictSet(f.result, m.key, Str(<<>>)),
                                       !.i = next_line(f.i)])
              ELSE Stay("block_empty_eof",
                        [f EXCEPT !.result = DictSet(f.result, m.key, Str(<<>>)),
                                  !.i = next_line(f.i)])
         ELSE Stay("block_scalar",
                   [f EXCEPT !.result = DictSet(f.result, m.key, _parse_scalar(m.val)),
                             !.i = next_line(f.i)])
    ELSE Stay("block_nomatch", [f EXCEPT !.i = next_line(f.i)])

\* One iteration of the outer while loop of _parse_list (lines 114-164), up
\* to the start of an item's collection, or the return of line 165.
_parse_list(L, f) ==
    IF ~(f.i < Len(L)) THEN Return("list_end", f, f.result, f.i)
    ELSE
    LET line == L[f.i + 1]
        trimmed == strip(line)
        indent == _get_indent(line)
        content == strip(SubSeq(trimmed, 3, Len(trimmed)))
        m == re_match(content)
    IN
    IF is_skipped(trimmed)
    THEN Stay("list_skip", [f EXCEPT !.i = next_line(f.i)])
    ELSE IF list_ends(indent, f.ind)
    THEN Return("list_break", f, f.result, f.i)
    ELSE IF indent > f.ind /\ ~is_dash(trimmed)
    THEN Stay("list_deeper", [f EXCEPT !.i = next_line(f.i)])
    ELSE IF is_dash(trimmed)
    THEN IF m.ok
         THEN Stay("list_item",
                   [f EXCEPT !.at = "item",
                             !.obj = Dict(<<m.key>>, <<_parse_scalar(m.val)>>),
                             !.j = f.i + 1])
         ELSE Stay("list_scalar",
                   [f EXCEPT !.result = ListAppend(f.result, _parse_scalar(content)),
                             !.i = next_line(f.i)])
    ELSE Return("list_other", f, f.result, f.i)

\* "result.append(obj); i = j" (lines 158-159): the item is complete.
item_done(f) ==
    [f EXCEPT !.at = "loop", !.result = ListAppend(f.result, f.obj), !.i = f.j]

\* One iteration of the item-collection loop of _parse_list (lines 132-157),
\* or its end (lines 158-159).  f.i is the index of the item's dash line.
_parse_list_item(L, f) ==
    IF ~(f.j < Len(L)) THEN Stay("item_end", item_done(f))
    ELSE
    LET indent == _get_indent(L[f.i + 1])
        sub == L[f.j + 1]
        st == strip(sub)
        si == _get_indent(sub)
        sm == re_match(st)
        nj == lookahead(L, f.j + 1)
    IN
    IF is_skipped(st)
    THEN Stay("item_skip", [f EXCEPT !.j = next_line(f.j)])
    ELSE IF item_ends(si, indent, st)
    THEN Stay("item_break", item_done(f))
    ELSE IF sm.ok
    THEN IF sm.val = <<>>
         THEN IF /\ nj < Len(L)
                 /\ _get_indent(L[nj + 1]) > si
                 /\ is_dash(strip(L[nj + 1]))
              THEN Call("item_list",
                        [f EXCEPT !.at = "call152", !.key = sm.key],
                        ListFrame(nj, _get_indent(L[nj + 1])))
              ELSE Stay("item_empty",
                        [f EXCEPT !.obj = DictSet(f.obj, sm.key, Str(<<>>)),
                                  !.j = next_line(f.j)])
         ELSE Stay("item_pair",
                   [f EXCEPT !.obj = DictSet(f.obj, sm.key, _parse_scalar(sm.val)),
                             !.j = next_line(f.j)])
    ELSE Stay("item_nomatch", [f EXCEPT !.j = next_line(f.j)])

\* The caller f takes the pair r returned by the call it waits on:
\* line 81-82 returns it as its own result, lines 95 and 97 store the value
\* under the key and continue at the returned index, line 152-153 does the
\* same for the item being collected.
resume(f, r) ==
    IF f.at = "call81"
    THEN Return("ret81", f, r.val, r.next)
    ELSE IF f.at = "call95"
    THEN Stay("ret95", [f EXCEPT !.at = "loop", !.i = r.next,
                                 !.result = DictSet(f.result, f.key, r.val)])
    ELSE IF f.at = "call97"
    THEN Stay("ret97", [f EXCEPT !.at = "loop", !.i = r.next,
                                 !.result = DictSet(f.result, f.key, r.val)])
    ELSE Stay("ret152", [f EXCEPT !.at = "item", !.j = r.next,
                                  !.obj = DictSet(f.obj, f.key, r.val)])

\* The step the machine takes from configuration c = [stack, ret].
outcome(L, c) ==
    LET f == Head(c.stack) IN
    IF c.ret.live THEN resume(f, c.ret)
    ELSE IF f.at = "item" THEN _parse_list_item(L, f)
    ELSE IF f.fn = "block" THEN _parse_block(L, f)
    ELSE _parse_list(L, f)

step(L, c) ==
    LET o == outcome(L, c)
        rest == Tail(c.stack)
    IN
    IF o.op = "stay" THEN [stack |-> <<o.frame>> \o rest, ret |-> NoRet]
    ELSE IF o.op = "call"
    THEN [stack |-> <<o.callee, o.frame>> \o rest, ret |-> NoRet]
    ELSE [stack |-> rest,
          ret |-> [live |-> TRUE, val |-> o.val, next |-> o.next]]

\* The configuration at the call _parse_block(lines, 0, -1) of parse_yaml.
start_cfg == [stack |-> <<BlockFrame(0, -1)>>, ret |-> NoRet]

RECURSIVE run(_, _)
run(L, c) == IF c.stack = <<>> THEN c.ret ELSE run(L, step(L, c))

\* parse_yaml on the lines of the text: the value of its return statement.
parse_yaml(L) == run(L, start_cfg).val

(***************************************************************************)
(* The documents of the model: every text of 1..MaxLines lines (str.split  *)
(* returns at least one line), each line drawn from LineSet.               *)
(***************************************************************************)
MaxLines == 4

LineSet ==
    { <<>>,
      <<"#">>,
      <<"a", ":", " ", "1">>,
      <<" ", "a", ":", " ", "1">>,
      <<"k", ":">>,
      <<" ", "k", ":">>,
      <<" ", " ", "-", " ", "x">>,
      <<"-", " ", "b", ":", " ", "~">>,
      <<" ", "z">> }

Docs == UNION { [1..n -> LineSet] : n \in 1..MaxLines }

cfg == [stack |-> stack, ret |-> ret]

top == Head(stack)

Done == stack = <<>>

\* Values of the variables a specification does not use.
Unused == <<>>

\* The driver is not part of the specification.
NoBuild ==
    /\ fs = Unused /\ pc = "off" /\ data = None /\ section = <<>>
    /\ idx = 0 /\ generated = <<>> /\ wrote = <<>>

\* No run of the parser has produced anything yet.
NoOut == [ran |-> FALSE, val |-> None, other |-> None]

Init ==
    /\ lines \in Docs
    /\ stack = start_cfg.stack
    /\ ret = start_cfg.ret
    /\ frag = Unused /\ out = NoOut /\ edited = Unused
    /\ NoBuild

\* The machine takes its step.
Advance ==
    LET c == step(lines, cfg) IN
    /\ stack' = c.stack
    /\ ret' = c.ret
    /\ UNCHANGED <<lines, frag, out, edited>>
    /\ UNCHANGED build_vars

\* One iteration of the loop of _parse_block.
block_step ==
    /\ ~Done /\ ~ret.live /\ top.fn = "block"
    /\ Advance

\* One iteration of the outer loop of _parse_list.
list_step ==
    /\ ~Done /\ ~ret.live /\ top.fn = "list" /\ top.at = "loop"
    /\ Advance

\* One iteration of the item-collection loop of _parse_list.
item_step ==
    /\ ~Done /\ ~ret.live /\ top.fn = "list" /\ top.at = "item"
    /\ Advance

\* The caller takes the pair a nested call returned.
deliver ==
    /\ ~Done /\ ret.live
    /\ Advance

Next == block_step \/ list_step \/ item_step \/ deliver

Spec == Init /\ [][Next]_vars

(***************************************************************************)
(* One "key: value" line: parse_yaml on the text "k: " + frag.  The        *)
(* fragments are the texts of up to MaxTokens tokens, and the bracketed    *)
(* arrays whose interior has up to MaxInterior characters.                 *)
(***************************************************************************)
MaxTokens == 3

MaxInterior == 5

Tokens ==
    { <<"t", "r", "u", "e">>, <<"T", "r", "u", "e">>,
      <<"f", "a", "l", "s", "e">>, <<"F", "a", "l", "s", "e">>,
      <<"n", "u", "l", "l">>, <<"~">>, <<"\"">>, <<"'">>,
      <<"[">>, <<"]">>, <<",">>, <<" ">>, <<"7">> }

RECURSIVE Concat(_)
Concat(ts) == IF ts = <<>> THEN <<>> ELSE Head(ts) \o Concat(Tail(ts))

TokenTexts ==
    { Concat(ts) : ts \in UNION { [1..n -> Tokens] : n \in 1..MaxTokens } }

InteriorChars == {"a", ",", "\"", "'", " "}

ArrayTexts ==
    { <<"[">> \o s \o <<"]">> :
        s \in UNION { [1..n -> InteriorChars] : n \in 0..MaxInterior } }

\* The line "k: " + frag.
KeyLineOf(f) == <<"k", ":", " ">> \o f

InitLine ==
    /\ frag \in TokenTexts \cup ArrayTexts
    /\ lines = <<KeyLineOf(frag)>>
    /\ stack = <<>> /\ ret = NoRet
    /\ out = NoOut /\ edited = Unused
    /\ NoBuild

\* parse_yaml is run on the line.
parse_line ==
    /\ ~out.ran
    /\ out' = [ran |-> TRUE, val |-> parse_yaml(lines), other |-> None]
    /\ UNCHANGED <<lines, stack, ret, frag, edited>>
    /\ UNCHANGED build_vars

NextLine == parse_line

SpecLine == InitLine /\ [][NextLine]_vars

(***************************************************************************)
(* A document and the same document with one blank or comment line         *)
(* inserted between two of its lines: parse_yaml on both.                  *)
(***************************************************************************)

\* The comment lines that are inserted: '#' at the indents of LineSet.
CommentLines == { <<"#">>, <<" ", "#">>, <<" ", " ", "#">> }

BlankLines == { <<>>, <<" ">> }

\* L with line x put between its lines p and p + 1 (1-based).
InsertAfter(L, p, x) == SubSeq(L, 1, p) \o <<x>> \o SubSeq(L, p + 1, Len(L))

InitInsert ==
    /\ lines \in Docs
    /\ edited = lines
    /\ stack = <<>> /\ ret = NoRet
    /\ out = NoOut /\ frag = Unused
    /\ NoBuild

\* Line x is inserted after line p and both documents are parsed.
Insert(p, x) ==
    /\ ~out.ran
    /\ edited' = InsertAfter(lines, p, x)
    /\ out' = [ran |-> TRUE, val |-> parse_yaml(lines),
               other |-> parse_yaml(edited')]
    /\ UNCHANGED <<lines, stack, ret, frag>>
    /\ UNCHANGED build_vars

insert_blank == \E p \in 1..(Len(lines) - 1) : \E x \in BlankLines : Insert(p, x)

insert_comment == \E p \in 1..(Len(lines) - 1) : \E x \in CommentLines : Insert(p, x)

NextInsert == insert_blank \/ insert_comment

SpecInsert == InitInsert /\ [][NextInsert]_vars

(***************************************************************************)
(* The driver: is_manually_managed, load_template, generate_page, main.    *)
(*                                                                         *)
(* A file is known by what the driver reads of it: whether it exists, the  *)
(* offset of the first '<!-- managed: manual -->' in it, and the offsets   *)
(* of the two placeholders generate_page replaces (-1: not in the file).   *)
(***************************************************************************)

\* f.read(500) of is_manually_managed.
ReadLimit == 500

\* len('<!-- managed: manual -->')
MarkerLen == 24

\* len('Case Study'), the text the title replaces in the <title> element.
TitlePlaceholderLen == 10

\* len('A strategic initiative case study.'), the text the title replaces in
\* the description.
DescPlaceholderLen == 34

NoFile == [exists |-> FALSE, marker |-> -1, title_at |-> -1, desc_at |-> -1]

File(m, t, d) == [exists |-> TRUE, marker |-> m, title_at |-> t, desc_at |-> d]

\* A faulty variant of marker_in_read: the last character read is not looked at.
marker_in_read_short(file) ==
    file.marker >= 0 /\ file.marker + MarkerLen < ReadLimit

\* "'<!-- managed: manual -->' in first_lines": the marker lies in the
\* characters read.
marker_in_read(file) ==
    file.marker >= 0 /\ file.marker + MarkerLen <= ReadLimit

is_manually_managed(file) ==
    IF ~file.exists THEN FALSE ELSE marker_in_read(file)

\* len(str(v)) for the title put into the page.
StrLen(v) ==
    CASE v.t = "str" -> Len(v.s)
      [] v.t = "bool" -> IF v.b THEN 4 ELSE 5
      [] v.t = "none" -> 4

\* The two template.replace calls with a title of n characters: what lies
\* after a replaced placeholder moves by the difference in length.
customize(template, n) ==
    LET shift1(at) == IF template.title_at >= 0 /\ at > template.title_at
                      THEN at + (n - TitlePlaceholderLen) ELSE at
        desc1 == IF template.desc_at >= 0 THEN shift1(template.desc_at) ELSE -1
        marker1 == IF template.marker >= 0 THEN shift1(template.marker) ELSE -1
        marker2 == IF desc1 >= 0 /\ marker1 > desc1
                   THEN marker1 + (n - DescPlaceholderLen) ELSE marker1
    IN File(marker2, -1, -1)

\* bool(v)
Truthy(v) ==
    CASE v.t = "str" -> v.s # <<>>
      [] v.t = "bool" -> v.b
      [] v.t = "none" -> FALSE
      [] OTHER -> v.items # <<>>

\* What "for item in v" goes through: the elements of a list, the
\* characters of a str, the keys of a dict.
Elements(v) ==
    CASE v.t = "list" -> v.items
      [] v.t = "str" -> [p \in 1..Len(v.s) |-> Str(<<v.s[p]>>)]
      [] v.t = "dict" -> [p \in 1..Len(v.keys) |-> Str(v.keys[p])]

\* link.strip('/')
RECURSIVE strip_slashes(_)
strip_slashes(s) ==
    IF s # <<>> /\ Head(s) = "/" THEN strip_slashes(Tail(s))
    ELSE IF s # <<>> /\ s[Len(s)] = "/" THEN strip_slashes(SubSeq(s, 1, Len(s) - 1))
    ELSE s

LINK == <<"l", "i", "n", "k">>
TITLE == <<"t", "i", "t", "l", "e">>
INITIATIVES == <<"i", "n", "i", "t", "i", "a", "t", "i", "v", "e", "s">>
PROJECTS == <<"p", "r", "o", "j", "e", "c", "t", "s">>

\* What a call of generate_page does: it raises, or returns None having
\* written nothing, or writes the page and returns its path.
Raises == [raised |-> TRUE, written |-> FALSE, dir |-> <<>>, html |-> NoFile]
ReturnsNone == [raised |-> FALSE, written |-> FALSE, dir |-> <<>>, html |-> NoFile]
Writes(dir, html) == [raised |-> FALSE, written |-> TRUE, dir |-> dir, html |-> html]

generate_page(item, template_name, files) ==
    IF item.t # "dict" THEN Raises
    ELSE
    LET link == DictGet(item, LINK, Str(<<>>))
        dir_name == strip_slashes(link.s)
        template == files.templates[template_name]
        title == DictGet(item, TITLE, Str(<<"P", "a", "g", "e">>))
    IN
    IF ~Truthy(link) THEN ReturnsNone
    ELSE IF link.t # "str" THEN Raises
    ELSE IF ~startswith(link.s, <<"/">>) THEN ReturnsNone
    ELSE IF is_manually_managed(files.pages[dir_name]) THEN ReturnsNone
    ELSE IF ~template.exists THEN ReturnsNone
    ELSE Writes(dir_name, customize(template, StrLen(title)))

(***************************************************************************)
(* The configurations of the model: the initiatives and the projects, up   *)
(* to MaxItems items in all, and a few texts that are no such document.    *)
(***************************************************************************)
MaxItems == 2

ItemSet ==
    { << <<" ", "-", " ", "l", "i", "n", "k", ":", " ", "/", "x">> >>,
      << <<" ", "-", " ", "t", "i", "t", "l", "e", ":", " ", "T">>,
         <<" ", " ", " ", "l", "i", "n", "k", ":", " ", "/", "x", "/">> >>,
      << <<" ", "-", " ", "l", "i", "n", "k", ":", " ", "/", "y">> >>,
      << <<" ", "-", " ", "l", "i", "n", "k", ":", " ", "x">> >>,
      << <<" ", "-", " ", "t", "i", "t", "l", "e", ":", " ", "T">> >>,
      << <<" ", "-", " ", "l", "i", "n", "k", ":", " ", "t", "r", "u", "e">> >>,
      << <<" ", "-", " ", "z">> >> }

ItemLists == UNION { [1..n -> ItemSet] : n \in 0..MaxItems }

Config(a, b) ==
    << INITIATIVES \o <<":">> >> \o Concat(a) \o << PROJECTS \o <<":">> >> \o Concat(b)

OtherConfigs ==
    { << <<"-", " ", "z">> >>,
      << INITIATIVES \o <<":", " ", "t", "r", "u", "e">> >>,
      << PROJECTS \o <<":", " ", "z">> >> }

Configs ==
    { Config(a, b) : <<a, b>> \in
        { ab \in ItemLists \X ItemLists : Len(ab[1]) + Len(ab[2]) <= MaxItems } }
    \cup OtherConfigs

Dirs == { <<"x">>, <<"y">> }

\* The pages x/index.html can start as: absent, without the marker, with
\* the marker at the start, with the marker ending at character 500, with
\* the marker one character further.
StartPages ==
    { NoFile, File(-1, -1, -1), File(0, -1, -1),
      File(ReadLimit - MarkerLen, -1, -1), File(ReadLimit - MarkerLen + 1, -1, -1) }

\* The templates: absent, with both placeholders, and with both
\* placeholders and a marker behind them, beyond the characters read.
StartTemplates == { NoFile, File(-1, 100, 200), File(ReadLimit - 1, 100, 200) }

InitBuild ==
    /\ lines \in Configs
    /\ fs \in [config : BOOLEAN,
               templates : [{"case-study", "project"} -> StartTemplates],
               pages : { [d \in Dirs |-> IF d = <<"x">> THEN f ELSE NoFile] :
                           f \in StartPages }]
    /\ fs.config \/ (lines = Config(<<>>, <<>>) /\ fs.pages[<<"x">>] = NoFile)
    /\ fs.templates["project"] # File(ReadLimit - 1, 100, 200)
    /\ pc = "start"
    /\ data = None /\ section = <<>> /\ idx = 0
    /\ generated = <<>> /\ wrote = <<>>
    /\ stack = <<>> /\ ret = NoRet
    /\ frag = Unused /\ out = NoOut /\ edited = Unused

\* main, lines 228-239: without portfolio.yaml it exits, else it parses it.
main_load ==
    /\ pc = "start"
    /\ IF ~fs.config
       THEN pc' = "exit" /\ UNCHANGED data
       ELSE pc' = "initiatives" /\ data' = parse_yaml(lines)
    /\ UNCHANGED <<fs, section, idx, generated, wrote>>
    /\ UNCHANGED parse_vars

\* "x = data.get(key, []); if x: print(len(x)); for item in x:" goes to
\* the loop over the elements, skips a falsy x, or raises.
enter(key, loop, after) ==
    IF data.t # "dict" THEN pc' = "raised" /\ UNCHANGED <<section, idx>>
    ELSE LET x == DictGet(data, key, EmptyList) IN
         IF ~Truthy(x) THEN pc' = after /\ UNCHANGED <<section, idx>>
         ELSE IF x.t = "bool" THEN pc' = "raised" /\ UNCHANGED <<section, idx>>
         ELSE pc' = loop /\ section' = Elements(x) /\ idx' = 0

\* One iteration of "for item in x: result = generate_page(item, name);
\* if result: generated.append(result)", or the end of the loop.
visit(name, after) ==
    IF idx >= Len(section)
    THEN pc' = after /\ UNCHANGED <<fs, idx, generated, wrote>>
    ELSE LET r == generate_page(section[idx + 1], name, fs) IN
         IF r.raised
         THEN pc' = "raised" /\ UNCHANGED <<fs, idx, generated, wrote>>
         ELSE /\ pc' = pc
              /\ idx' = idx + 1
              /\ IF r.written
                 THEN /\ fs' = [fs EXCEPT !.pages[r.dir] = r.html]
                      /\ generated' = Append(generated, r.dir)
                      /\ wrote' = Append(wrote, [dir |-> r.dir,
                                                 before |-> fs.pages[r.dir],
                                                 template |-> name])
                 ELSE UNCHANGED <<fs, generated, wrote>>

\* main, lines 242-244
enter_initiatives ==
    /\ pc = "initiatives"
    /\ enter(INITIATIVES, "initiatives_loop", "projects")
    /\ UNCHANGED <<fs, data, generated, wrote>>
    /\ UNCHANGED parse_vars

\* main, lines 245-248
visit_initiative ==
    /\ pc = "initiatives_loop"
    /\ visit("case-study", "projects")
    /\ UNCHANGED <<data, section>>
    /\ UNCHANGED parse_vars

\* main, lines 251-253
enter_projects ==
    /\ pc = "projects"
    /\ enter(PROJECTS, "projects_loop", "report")
    /\ UNCHANGED <<fs, data, generated, wrote>>
    /\ UNCHANGED parse_vars

\* main, lines 254-257
visit_project ==
    /\ pc = "projects_loop"
    /\ visit("project", "report")
    /\ UNCHANGED <<data, section>>
    /\ UNCHANGED parse_vars

\* main, lines 259-260
report ==
    /\ pc = "report"
    /\ pc' = "done"
    /\ UNCHANGED <<fs, data, section, idx, generated, wrote>>
    /\ UNCHANGED parse_vars

NextBuild ==
    \/ main_load \/ enter_initiatives \/ visit_initiative
    \/ enter_projects \/ visit_project \/ report

SpecBuild == InitBuild /\ [][NextBuild]_vars

(***************************************************************************)
(* Properties of the parser.                                               *)
(***************************************************************************)
NLines == Len(lines)

\* Line i of the document, 0-based.
Line(L, i) == L[i + 1]

\* A line that is neither blank nor a comment.
Significant(L, i) == ~is_skipped(strip(Line(L, i)))

\* The first index from i on that satisfies P, Len(L) when there is none.
FirstFrom(L, i, P(_, _)) ==
    IF \E t \in i..(Len(L) - 1) : P(L, t)
    THEN CHOOSE t \in i..(Len(L) - 1) :
             P(L, t) /\ \A u \in i..(t - 1) : ~P(L, u)
    ELSE Len(L)

\* C1: parse_yaml returns a dict for every text.
C1_RootIsMapping == Done => ret.val.t = "dict"

\* The line index a frame works at: j in the item-collection loop and at
\* its nested call, i elsewhere.
Cursor(f) == IF f.at \in {"item", "call152"} THEN f.j ELSE f.i

\* The machine started in configuration c stops within n steps.
RECURSIVE HaltsWithin(_, _, _)
HaltsWithin(L, c, n) ==
    IF c.stack = <<>> THEN TRUE
    ELSE IF n = 0 THEN FALSE
    ELSE HaltsWithin(L, step(L, c), n - 1)

\* Steps that suffice for a document: a few per line.
StepBudget(L) == 4 * Len(L) + 4

\* C2: parse_yaml terminates with a value on every text: in every
\* configuration the parser reaches, the step it takes next either strictly
\* advances the line index of the loop it is in (also across a nested call
\* and its return) or ends that loop, no index passes the end of the line
\* array, and the run from there stops within the step budget with a
\* returned pair.
C2_Terminates ==
    /\ ~Done =>
        LET f == top
            o == outcome(lines, cfg)
            endsItem == f.at = "item" /\ o.frame.at = "loop"
        IN
        /\ Cursor(f) <= NLines
        /\ o.op = "stay" /\ endsItem => o.frame.i = f.j /\ f.j > f.i
        /\ o.op = "stay" /\ ~endsItem =>
               Cursor(o.frame) > Cursor(f) /\ Cursor(o.frame) <= NLines
        /\ o.op = "call" /\ o.br # "block_dash" =>
               o.callee.i > Cursor(f) /\ o.callee.i < NLines
        /\ o.op = "call" /\ o.br = "block_dash" => o.callee.i = f.i
        /\ o.op = "return" => o.next >= Cursor(f) /\ o.next <= NLines
        /\ HaltsWithin(lines, cfg, StepBudget(lines))
    /\ Done => ret.live /\ ret.next <= NLines

\* A run that went through a nested call from the item-collection loop and
\* returned: - b: ~ / k: / - x .
C2_Witness ==
    /\ Done
    /\ ret.val.t = "list"
    /\ \E e \in 1..Len(ret.val.items) :
           /\ ret.val.items[e].t = "dict"
           /\ \E q \in 1..Len(ret.val.items[e].items) :
                  ret.val.items[e].items[q].t = "list"

\* A nested call has just returned to the key line that made it.
Returned == ~Done /\ ret.live /\ top.at \in {"call95", "call97", "call152"}

\* The index of the key line a returned nested call belongs to.
KeyLine == Cursor(top)

\* The first significant line after line p whose indent is <= that of p.
Terminator(L, p) ==
    LET AtMost(M, t) ==
            Significant(M, t) /\ _get_indent(Line(M, t)) <= _get_indent(Line(M, p))
    IN FirstFrom(L, p + 1, AtMost)

\* The pair returned by the nested call that the waiting frame f makes on
\* document L.
NestedCall(L, f) ==
    LET o == IF f.at = "call152"
             THEN _parse_list_item(L, [f EXCEPT !.at = "item"])
             ELSE _parse_block(L, [f EXCEPT !.at = "loop"])
    IN run(L, [stack |-> <<o.callee>>, ret |-> NoRet])

\* C5 as stated: the nested call of a key line returns the index of the
\* first later significant line whose indent is <= the key line's.
C5_ReturnsTerminator ==
    Returned /\ Terminator(lines, KeyLine) < NLines =>
        ret.next = Terminator(lines, KeyLine)

\* C5 (amended): the nested call of a key line returns an index no greater
\* than that of the first later significant line whose indent is <= the
\* key line's, and the value is the one the same call returns on the
\* document cut before that line: nothing from that line on is in it.
C5_StopsByTerminator ==
    Returned =>
        LET t == Terminator(lines, KeyLine) IN
        /\ ret.next <= t
        /\ NestedCall(SubSeq(lines, 1, t), top).val = ret.val

\* A nested mapping was ended by a line at the key's indent, with a line
\* after it.
C5_Witness ==
    /\ Returned
    /\ top.at = "call97"
    /\ ret.val.keys # <<>>
    /\ ret.next = Terminator(lines, KeyLine)
    /\ ret.next + 1 < NLines

\* Call(s) of _parse_block whose return is at hand: the root call, or the
\* call of line 97.
BlockReturned == Done \/ (ret.live /\ top.at = "call97")

\* The first line the returned call of _parse_block looked at.
BlockStart ==
    IF Done THEN FirstFrom(lines, 0, Significant)
    ELSE FirstFrom(lines, lookahead(lines, top.i + 1), Significant)

\* C9: _parse_block returns a list exactly when the first significant line
\* of its block starts with "- " (and a dict otherwise, also when a dash
\* line occurs later in the block).
C9_DecidedByFirstLine ==
    BlockReturned =>
        (ret.val.t = "list" <=>
            /\ BlockStart < NLines
            /\ is_dash(strip(Line(lines, BlockStart))))

(***************************************************************************)
(* C10: what the item of a dash line holds, stated over the document.      *)
(***************************************************************************)

\* Line p is a key with an empty value whose next non-blank line is a
\* deeper dash line: its value is a nested sequence.
OpensSequence(L, p) ==
    LET m == re_match(strip(Line(L, p)))
        n == lookahead(L, p + 1)
    IN
    /\ Significant(L, p) /\ ~is_dash(strip(Line(L, p)))
    /\ m.ok /\ m.val = <<>>
    /\ n < Len(L)
    /\ _get_indent(Line(L, n)) > _get_indent(Line(L, p))
    /\ is_dash(strip(Line(L, n)))

\* The nested sequence of such a line: its value and the index after it.
NestedSequence(L, p) ==
    LET n == lookahead(L, p + 1) IN
    run(L, [stack |-> <<ListFrame(n, _get_indent(Line(L, n)))>>, ret |-> NoRet])

\* Line q ends the item of dash line i: a significant line that is a dash
\* line or has an indent <= the dash line's.
EndsItem(L, i, q) ==
    /\ Significant(L, q)
    /\ \/ _get_indent(Line(L, q)) <= _get_indent(Line(L, i))
       \/ is_dash(strip(Line(L, q)))

\* Line q belongs to the item of dash line i: it follows the dash line, no
\* line of the item before it ends the item, and no nested sequence of the
\* item holds it.
RECURSIVE InItem(_, _, _)
InItem(L, i, q) ==
    \/ q = i + 1
    \/ \E p \in (i + 1)..(q - 1) :
           /\ InItem(L, i, p)
           /\ ~EndsItem(L, i, p)
           /\ q = IF OpensSequence(L, p) THEN NestedSequence(L, p).next ELSE p + 1

\* The index at which the item of dash line i ends.
ItemEnd(L, i) ==
    CHOOSE q \in (i + 1)..Len(L) :
        InItem(L, i, q) /\ (q = Len(L) \/ EndsItem(L, i, q))

\* The "key: value" lines of the item of dash line i before line j.
PairLines(L, i, j) ==
    { q \in (i + 1)..(j - 1) :
        /\ InItem(L, i, q) /\ q < ItemEnd(L, i)
        /\ Significant(L, q)
        /\ re_match(strip(Line(L, q))).ok }

\* The value the pair of line q has.
PairValue(L, q) ==
    LET m == re_match(strip(Line(L, q))) IN
    IF m.val # <<>> THEN _parse_scalar(m.val)
    ELSE IF OpensSequence(L, q) THEN NestedSequence(L, q).val
    ELSE Str(<<>>)

\* The dict holding the pairs of the lines Q, entered in line order.
RECURSIVE WithPairs(_, _, _)
WithPairs(L, d, Q) ==
    IF Q = {} THEN d
    ELSE LET q == CHOOSE x \in Q : \A y \in Q : x <= y IN
         WithPairs(L, DictSet(d, re_match(strip(Line(L, q))).key, PairValue(L, q)),
                   Q \ {q})

\* The dash line's own pair.
OwnPair(L, i) ==
    LET m == re_match(strip(SubSeq(strip(Line(L, i)), 3, Len(strip(Line(L, i)))))) IN
    Dict(<<m.key>>, <<_parse_scalar(m.val)>>)

\* C10: while _parse_list collects the item of dash line i, the item holds
\* the dash line's own pair and exactly the pairs of the item's lines read
\* so far; the collection ends at the first line that ends the item, and
\* the item is then appended, once, after the elements of earlier lines.
C10_ItemHoldsItsPairs ==
    ~Done /\ ~ret.live /\ top.at = "item" =>
        LET o == outcome(lines, cfg) IN
        /\ InItem(lines, top.i, top.j)
        /\ top.j <= ItemEnd(lines, top.i)
        /\ top.obj = WithPairs(lines, OwnPair(lines, top.i),
                               PairLines(lines, top.i, top.j))
        /\ (o.op = "stay" /\ o.frame.at = "loop") <=> top.j = ItemEnd(lines, top.i)
        /\ o.op = "stay" /\ o.frame.at = "loop" =>
               /\ o.frame.result.items = Append(top.result.items, top.obj)
               /\ o.frame.i = top.j
        /\ o.op = "stay" /\ o.frame.at = "item" =>
               o.frame.result = top.result

\* Two mapping items were collected, the first from two lines.
C10_Witness ==
    /\ Done
    /\ ret.val.t = "list"
    /\ Len(ret.val.items) = 2
    /\ ret.val.items[1].t = "dict" /\ Len(ret.val.items[1].keys) = 2
    /\ ret.val.items[2].t = "dict"

(***************************************************************************)
(* Properties of _parse_scalar and _split_array (SpecLine).                *)
(***************************************************************************)

\* The value parse_yaml gave key k of the line.
Resolved == DictGet(out.val, <<"k">>, None)

Quotes == {"\"", "'"}

\* Text wrapped in matching quotes: an opening quote and the same
\* character closing it.
Wrapped(v) == Len(v) >= 2 /\ v[1] \in Quotes /\ v[Len(v)] = v[1]

Bracketed(v) == Len(v) >= 2 /\ v[1] = "[" /\ v[Len(v)] = "]"

\* C6: the value of a "key: value" line with a non-empty value is the one
\* the first matching case gives for the trimmed fragment: true/True,
\* false/False, null/~, text wrapped in matching quotes (the text without
\* its first and last character), a bracketed array (a list), anything else
\* (the fragment itself, a str).
C6_Classified ==
    out.ran /\ strip(frag) # <<>> =>
        LET v == strip(frag) IN
        /\ out.val.t = "dict" /\ out.val.keys = <<(<<"k">>)>>
        /\ IF v \in {<<"t", "r", "u", "e">>, <<"T", "r", "u", "e">>}
           THEN Resolved = Bool(TRUE)
           ELSE IF v \in {<<"f", "a", "l", "s", "e">>, <<"F", "a", "l", "s", "e">>}
           THEN Resolved = Bool(FALSE)
           ELSE IF v \in {<<"n", "u", "l", "l">>, <<"~">>}
           THEN Resolved = None
           ELSE IF Wrapped(v)
           THEN Resolved = Str(SubSeq(v, 2, Len(v) - 1))
           ELSE IF Bracketed(v)
           THEN Resolved.t = "list"
           ELSE Resolved = Str(v)

\* Position p of s lies in a quote span: a quote character before p that
\* is not itself in a span opened one, and the same character has not
\* occurred since.
RECURSIVE InQuotes(_, _)
InQuotes(s, p) ==
    \E o \in 1..(p - 1) :
        /\ s[o] \in Quotes
        /\ ~InQuotes(s, o)
        /\ \A q \in (o + 1)..(p - 1) : s[q] # s[o]

\* The commas of s outside every quote span.
SplitPoints(s) == { p \in 1..Len(s) : s[p] = "," /\ ~InQuotes(s, p) }

\* The fragment of s that starts after split point (or start) b.
FragmentFrom(s, b) ==
    LET later == { p \in SplitPoints(s) : p > b }
        e == IF later = {} THEN Len(s) + 1
             ELSE CHOOSE p \in later : \A q \in later : p <= q
    IN SubSeq(s, b + 1, e - 1)

\* The fragments of s in source order, the final one dropped when blank.
RECURSIVE FragmentsFrom(_, _)
FragmentsFrom(s, b) ==
    LET later == { p \in SplitPoints(s) : p > b } IN
    IF later = {}
    THEN IF strip(FragmentFrom(s, b)) = <<>> THEN <<>> ELSE <<FragmentFrom(s, b)>>
    ELSE <<FragmentFrom(s, b)>>
         \o FragmentsFrom(s, CHOOSE p \in later : \A q \in later : p <= q)

\* C7: the value of a bracketed array is the list that has, in source
\* order, the resolved scalar of each fragment between the commas outside
\* quote spans, without the final fragment when that is blank.
C7_SplitsOutsideQuotes ==
    out.ran /\ frag \in ArrayTexts =>
        LET kept == FragmentsFrom(inner(frag), 0) IN
        /\ Resolved.t = "list"
        /\ Len(Resolved.items) = Len(kept)
        /\ \A e \in 1..Len(kept) : Resolved.items[e] = _parse_scalar(kept[e])

\* An array with a comma inside a quote span and a split at a comma outside:
\* the quoted element keeps its comma.
C7_Witness ==
    /\ out.ran /\ frag \in ArrayTexts
    /\ Len(Resolved.items) = 2
    /\ Resolved.items[1] = Str(<<",">>)

(***************************************************************************)
(* Property of inserted lines (SpecInsert).                                *)
(***************************************************************************)

\* C4: a document parses to the same value with a blank line or a comment
\* line inserted between two of its lines.
C4_InsertionNeutral == out.ran => out.other = out.val


(***************************************************************************)
(* Properties of the driver (SpecBuild).                                   *)
(***************************************************************************)

\* The file holds the marker, wherever.
HoldsMarker(file) == file.exists /\ file.marker >= 0

\* The file holds the marker within its first ReadLimit characters.
HoldsMarkerAtTop(file) ==
    file.exists /\ file.marker >= 0 /\ file.marker + MarkerLen <= ReadLimit

\* C3 as stated: no index.html that holds the marker, at any position, is
\* written.
C3_MarkedNeverWritten ==
    \A w \in 1..Len(wrote) : ~HoldsMarker(wrote[w].before)

\* C3 (amended): no index.html that holds the marker within its first 500
\* characters is written, and a page is written only from a template that
\* was found.
C3_MarkedAtTopNeverWritten ==
    \A w \in 1..Len(wrote) :
        /\ ~HoldsMarkerAtTop(wrote[w].before)
        /\ fs.templates[wrote[w].template].exists

\* The build went through two items of the same directory x, whose page
\* holds the marker ending exactly at character 500, found its template,
\* and wrote nothing.
C3_Witness ==
    /\ pc = "done"
    /\ fs.pages[<<"x">>] = File(ReadLimit - MarkerLen, -1, -1)
    /\ fs.templates["case-study"].exists
    /\ data.t = "dict"
    /\ LET x == DictGet(data, INITIATIVES, EmptyList) IN
       /\ x.t = "list" /\ Len(x.items) = 2
       /\ \A e \in 1..2 :
              /\ x.items[e].t = "dict"
              /\ strip_slashes(DictGet(x.items[e], LINK, Str(<<>>)).s) = <<"x">>
    /\ wrote = <<>>

\* C8: the driver goes through every item and never raises; an item whose
\* link is missing or no str starting with '/' is skipped, nothing written.
C8_NeverRaises == pc # "raised"
====
